---- MODULE Spec2Model ----
(***************************************************************************)
(* The particle animation loops of the portfolio site and the widgets its  *)
(* load handlers set up.                                                   *)
(*                                                                         *)
(*   script.js, part_001 : class ParticleSystem (constructor, listeners,   *)
(*                         animate, drawConnections, destroy), the mobile  *)
(*                         navigation, the typewriter of the hero title    *)
(*   part_001            : initCounterAnimation                            *)
(*   part_000            : function initializeParticles (Particle.update,  *)
(*                         animate, resize listener), initializeNavigation,*)
(*                         the stat counter, initializeTypeWriter          *)
(*                                                                         *)
(* Every handler of the page runs to completion (single-threaded event     *)
(* loop), so every action below is one whole handler.  The host is modelled*)
(* by its animation-frame queue (pending), its clock, the layout size of   *)
(* the canvas element and document.hidden.                                 *)
(*                                                                         *)
(* Numbers: lengths are integers in units of 1/Sub pixel, velocities in    *)
(* 1/Sub pixel per unit of deltaTime, deltaTime in thousandths, opacities  *)
(* in millionths.  Products are rounded toward zero where the code rounds  *)
(* to the nearest double.  The opacity pulse, the hue and the colours of   *)
(* a particle influence no position and no scheduling and are left out.    *)
(***************************************************************************)
EXTENDS Integers, Sequences, FiniteSets, TLC

\* ---------------------------------------------------------------- bounds
\* executed frames followed per page
MaxFrames == 3
\* particles of the array that are followed (the first MaxParticles of them)
MaxParticles == 2
\* length units per pixel
Sub == 8

MaxTitle == 3         \* characters of the longest hero title followed
MaxEvents == 3        \* resize events followed on one page
MaxWait == 400        \* ms of the page's life followed by the timer models

\* ------------------------------------------------------ program constants
CounterSteps == 50    \* increments that make up a counter of part_001
StatDuration == 2000  \* ms a stat counter of part_000 runs
StatInterval == 16    \* ms between two ticks of a stat counter
ScrollOffset == 80    \* px a link of script.js stops above its section
NavbarGap == 20       \* px part_000 adds to the height of the navbar
ResizeDelay == 150    \* ms of the timeout of the resize listener
MobileBreakpoint == 768
DesktopBreakpoint == 1200
MobileCount == 15
TabletCount == 25
DesktopCount == 40
FallbackCount == 30
NoWebGLCap == 15
MouseRadiusPx == 150
MouseLeavePx == 1000
MaxDistancePx == 80
ConnectionDistancePx == 150
EditorialCount == 50
\* 0.016, 0.2, 0.05 as thousandths; 0.15 and 0.1 as millionths
DeltaPerMs == 16
DeltaCap == 1000
RepelGain == 200
ReturnGain == 50
LineAlpha == 150000
EditorialLineAlpha == 100000

\* --------------------------------------------------------------- helpers
Min(a, b) == IF a < b THEN a ELSE b

\* a / b rounded toward zero (b > 0)
TruncDiv(a, b) == IF a >= 0 THEN a \div b ELSE 0 - ((0 - a) \div b)

\* binary search for the integer square root of t[1] within t[2]..t[3]
SqrtSearch[t \in Nat \X Nat \X Nat] ==
    IF t[2] >= t[3] THEN t[2]
    ELSE IF ((t[2] + t[3] + 1) \div 2) * ((t[2] + t[3] + 1) \div 2) <= t[1]
         THEN SqrtSearch[<<t[1], (t[2] + t[3] + 1) \div 2, t[3]>>]
         ELSE SqrtSearch[<<t[1], t[2], ((t[2] + t[3] + 1) \div 2) - 1>>]

\* Math.sqrt on a non-negative integer, rounded down to the length unit
Sqrt(n) == SqrtSearch[<<n, 0, Min(n, 46340)>>]

Range(s) == {s[i] : i \in 1..Len(s)}

VARIABLES
    file,           \* which source file's loop the page runs
    env,            \* host facts read at construction
    phase,          \* "load" before DOMContentLoaded ran, "ready" after
    hidden,         \* document.hidden
    layout,         \* offsetWidth/offsetHeight (innerWidth/innerHeight) in px
    clock,          \* last value of Date.now()
    pending,        \* ids of the animation-frame requests not yet run
    nextId,         \* next handle requestAnimationFrame returns
    resizeTimeout,  \* TRUE while the debounce timeout of resize is pending
    listeners,      \* TRUE once setupEventListeners registered the handlers
    canvas,         \* canvas.width / canvas.height in px
    particles,      \* this.particles (the particles followed)
    length,         \* this.particles.length
    particleCount,  \* this.particleCount
    animationId,    \* this.animationId, 0 for null
    isVisible,      \* this.isVisible
    frameCount,     \* this.frameCount
    lastFrame,      \* this.lastFrame
    mouse,          \* this.mouse.x / this.mouse.y
    interactionEnabled,
    destroyed,      \* destroy() has been called
    ticks,          \* calls of animate that passed its guard, so far
    page,           \* the setup steps the page's load handlers have run
    out,            \* what the last handler did on the canvas and the host
    nav,            \* mobile navigation: classes, aria-expanded, scroll position
    hero,           \* typewriter of the hero title
    subtitle,       \* typewriter of the hero subtitle (part_000)
    stat,           \* counter of a [data-count] element (part_000)
    counter,        \* counter animation of a list item (part_001)
    debounce        \* timeouts of the resize listener of the ParticleSystem

\* the page and its ParticleSystem
system == <<file, env, phase, hidden, layout, clock, pending, nextId,
            resizeTimeout, listeners, canvas, particles, length,
            particleCount, animationId, isVisible, frameCount, lastFrame, mouse,
            interactionEnabled, destroyed, ticks, page, out>>

\* the widgets the load handlers set up besides the particles
widgets == <<nav, hero, subtitle, stat, counter, debounce>>

vars == <<system, widgets>>

\* the value of a widget whose element is not on the page
Absent == "absent"

WidgetsAbsent ==
    /\ nav = Absent
    /\ hero = Absent
    /\ subtitle = Absent
    /\ stat = Absent
    /\ counter = Absent
    /\ debounce = Absent

\* ------------------------------------------------- construction helpers
\* canvas.getContext('webgl') || canvas.getContext('experimental-webgl')
checkWebGLSupport(e) == e.webgl

getParticleCount(e) ==
    IF e.mobileUA \/ e.innerWidth < MobileBreakpoint THEN MobileCount
    ELSE IF e.innerWidth < DesktopBreakpoint THEN TabletCount
    ELSE IF e.webgl THEN DesktopCount ELSE FallbackCount

\* a constructor that keeps the count of getParticleCount without WebGL
CreatedCountUncapped(e) == getParticleCount(e)

\* The particleCount the constructor passes to init(): the count of
\* getParticleCount, capped at 15 when checkWebGLSupport() is false.
CreatedCount(e) ==
    IF checkWebGLSupport(e) THEN getParticleCount(e)
    ELSE Min(getParticleCount(e), NoWebGLCap)

\* a constructor that never reads the preference
IgnoreReducedMotion(e) == FALSE

\* the early exit of the constructor for prefers-reduced-motion
ReducedMotionExit(e) == e.reducedMotion

\* One particle of init(); rnd holds the values of Math.random() in eighths.
\* x = random*width, vx = (random-0.5)*0.5, radius = random*2+1
NewParticle(rnd, cv) ==
    [x      |-> (rnd.x * cv.width * Sub) \div 8,
     y      |-> (rnd.y * cv.height * Sub) \div 8,
     vx     |-> TruncDiv((rnd.vx - 4) * Sub, 16),
     vy     |-> TruncDiv((rnd.vy - 4) * Sub, 16),
     baseVx |-> TruncDiv((rnd.bx - 4) * Sub, 16),
     baseVy |-> TruncDiv((rnd.by - 4) * Sub, 16),
     radius |-> ((rnd.r * 2 + 8) * Sub) \div 8]

\* ------------------------------------------------------ per-frame update
\* a time scale without the clamp
DeltaTimeUnclamped(frameTime) == frameTime * DeltaPerMs

\* Math.min(frameTime * 0.016, 1), in thousandths
DeltaTime(frameTime) == Min(frameTime * DeltaPerMs, DeltaCap)

\* now - (this.lastFrame || now)
FrameTime(now, last) == now - (IF last # 0 THEN last ELSE now)

\* a wrap that forgets the far edge
WrapNearEdgeOnly(x, radius, dim) ==
    IF x < 0 - radius THEN dim + radius ELSE x

\* the wrap of one coordinate; dim is canvas.width or canvas.height
Wrap(x, radius, dim) ==
    IF x < 0 - radius THEN dim + radius
    ELSE IF x > dim + radius THEN 0 - radius
    ELSE x

\* the mouse block of part_001: repel within mouse.radius, else drift back
MouseForce(p, m) ==
    LET dx == m.x - p.x
        dy == m.y - p.y
        distance == Sqrt(dx * dx + dy * dy)
        R == MouseRadiusPx * Sub
    IN  IF distance < R
        THEN LET force == ((R - distance) * 1000) \div R
                 \* Math.cos / Math.sin of atan2(dy, dx); atan2(0, 0) = 0
                 cosA == IF distance = 0 THEN 1000 ELSE TruncDiv(dx * 1000, distance)
                 sinA == IF distance = 0 THEN 0 ELSE TruncDiv(dy * 1000, distance)
             IN  [p EXCEPT
                   !.vx = @ - TruncDiv(TruncDiv(cosA * force, 1000) * RepelGain * Sub, 1000000),
                   !.vy = @ - TruncDiv(TruncDiv(sinA * force, 1000) * RepelGain * Sub, 1000000)]
        ELSE [p EXCEPT
               !.vx = @ + TruncDiv((p.baseVx - p.vx) * ReturnGain, 1000),
               !.vy = @ + TruncDiv((p.baseVy - p.vy) * ReturnGain, 1000)]

\* position integration and edge wrap of one particle
Integrate(p, frameTime, cv) ==
    LET dt == DeltaTime(frameTime)
    IN  [p EXCEPT
          !.x = Wrap(p.x + TruncDiv(p.vx * dt, 1000), p.radius, cv.width * Sub),
          !.y = Wrap(p.y + TruncDiv(p.vy * dt, 1000), p.radius, cv.height * Sub)]

\* the update half of the forEach callback of animate
UpdateParticle(p, frameTime, cv, m, interact) ==
    Integrate(IF interact THEN MouseForce(p, m) ELSE p, frameTime, cv)

\* a forEach whose drawing is not wrapped in try/catch: the first failing
\* particle ends the loop
ForEachUncaught(ps, frameTime, cv, m, interact, failing) ==
    LET n == Len(ps)
        stop == IF failing \cap (1..n) = {} THEN n
                ELSE CHOOSE k \in failing \cap (1..n) :
                        \A j \in failing \cap (1..n) : k <= j
        bad == failing \cap (1..n) # {}
    IN  [particles |-> [i \in 1..n |->
                          IF i <= stop
                          THEN UpdateParticle(ps[i], frameTime, cv, m, interact)
                          ELSE ps[i]],
         updated   |-> [i \in 1..stop |-> i],
         drawn     |-> [i \in 1..(IF bad THEN stop - 1 ELSE stop) |->
                          LET q == UpdateParticle(ps[i], frameTime, cv, m, interact)
                          IN  [i |-> i, x |-> q.x, y |-> q.y]],
         aborted   |-> bad]

\* a forEach whose callback draws the particle before it moves it
ForEachDrawFirst(ps, frameTime, cv, m, interact, failing) ==
    [particles |-> [i \in 1..Len(ps) |->
                      UpdateParticle(ps[i], frameTime, cv, m, interact)],
     updated   |-> [i \in 1..Len(ps) |-> i],
     drawn     |-> SelectSeq([i \in 1..Len(ps) |-> [i |-> i, x |-> ps[i].x, y |-> ps[i].y]],
                             LAMBDA d : d.i \notin failing),
     aborted   |-> FALSE]

\* The forEach of animate.  failing is the set of particles whose drawing
\* throws; the inner try/catch skips them.  aborted tells that an exception
\* left the loop.
ForEachParticle(ps, frameTime, cv, m, interact, failing) ==
    CHOOSE r \in
      {[particles |-> upd,
        updated   |-> [i \in 1..Len(ps) |-> i],
        drawn     |-> SelectSeq([i \in 1..Len(ps) |-> [i |-> i, x |-> upd[i].x, y |-> upd[i].y]],
                                LAMBDA d : d.i \notin failing),
        aborted   |-> FALSE]
         : upd \in {[i \in 1..Len(ps) |->
                       UpdateParticle(ps[i], frameTime, cv, m, interact)]}} : TRUE

\* ------------------------------------------------------------ connections
RECURSIVE PairsFrom(_, _, _)
\* the pairs (i, j) in the order of the two nested loops
PairsFrom(i, j, n) ==
    IF i > n THEN <<>>
    ELSE IF j > n THEN PairsFrom(i + 1, i + 2, n)
    ELSE <<<<i, j>>>> \o PairsFrom(i, j + 1, n)

DistanceSquared(p, q) == (p.x - q.x) * (p.x - q.x) + (p.y - q.y) * (p.y - q.y)

\* a threshold test that lets the threshold itself through
IsConnectedInclusive(d2) == d2 <= (MaxDistancePx * Sub) * (MaxDistancePx * Sub)

\* if (distanceSquared < maxDistanceSquared)
IsConnected(d2) == d2 < (MaxDistancePx * Sub) * (MaxDistancePx * Sub)

\* an opacity with the factor of part_000
LineOpacityTenth(distance) ==
    TruncDiv((MaxDistancePx * Sub - distance) * EditorialLineAlpha, MaxDistancePx * Sub)

\* (1 - distance / maxDistance) * 0.15, in millionths
LineOpacity(distance) ==
    TruncDiv((MaxDistancePx * Sub - distance) * LineAlpha, MaxDistancePx * Sub)

\* drawConnections: the lines stroked, in order
drawConnections(ps) ==
    LET dist == [pr \in Range(PairsFrom(1, 2, Len(ps))) |->
                   DistanceSquared(ps[pr[1]], ps[pr[2]])]
        near == SelectSeq(PairsFrom(1, 2, Len(ps)), LAMBDA pr : IsConnected(dist[pr]))
    IN  [k \in 1..Len(near) |->
            [i |-> near[k][1], j |-> near[k][2],
             distance |-> Sqrt(dist[near[k]]),
             opacity |-> LineOpacity(Sqrt(dist[near[k]]))]]

\* ------------------------------------------------- part_000: the loop
\* Particle.update: move, then reverse the velocity beyond an edge
EditorialUpdate(p, cv) ==
    LET nx == p.x + p.vx
        ny == p.y + p.vy
    IN  [p EXCEPT !.x = nx, !.y = ny,
                  !.vx = IF nx < 0 \/ nx > cv.width * Sub THEN 0 - p.vx ELSE p.vx,
                  !.vy = IF ny < 0 \/ ny > cv.height * Sub THEN 0 - p.vy ELSE p.vy]

\* if (distance < connectionDistance), distance = Math.hypot(...)
EditorialIsConnected(distance) == distance < ConnectionDistancePx * Sub

\* 0.1 * (1 - distance / connectionDistance), in millionths
EditorialLineOpacity(distance) ==
    TruncDiv((ConnectionDistancePx * Sub - distance) * EditorialLineAlpha,
             ConnectionDistancePx * Sub)

\* the connection block of animate in part_000: the lines stroked, in order
EditorialConnections(ps) ==
    LET dist == [pr \in Range(PairsFrom(1, 2, Len(ps))) |->
                   Sqrt(DistanceSquared(ps[pr[1]], ps[pr[2]]))]
        near == SelectSeq(PairsFrom(1, 2, Len(ps)),
                          LAMBDA pr : EditorialIsConnected(dist[pr]))
    IN  [k \in 1..Len(near) |->
            [i |-> near[k][1], j |-> near[k][2],
             distance |-> dist[near[k]],
             opacity |-> EditorialLineOpacity(dist[near[k]])]]

\* ------------------------------------------------------------------ animate
\* the log of a handler that touched neither the canvas nor the frame queue
Quiet(op) ==
    [op |-> op, calls |-> {}, ran |-> FALSE, early |-> FALSE, cleared |-> FALSE,
     frameNo |-> 0, failing |-> {}, updated |-> <<>>, drawn |-> <<>>,
     conn |-> FALSE, lines |-> <<>>, threw |-> FALSE, requested |-> FALSE]

\* a guard that forgets the visibility flag
GuardWithoutVisibility(vis, e) == ~e.hasCtx \/ ~e.hasCanvas

\* if (!this.isVisible || !this.ctx || !this.canvas)
AnimateGuard(vis, e) == ~vis \/ ~e.hasCtx \/ ~e.hasCanvas

\* a parity test that draws the connections on the odd frames
ConnectionFrameOdd(n) == n % 2 = 1

\* if (this.frameCount % 2 === 0)
ConnectionFrame(n) == n % 2 = 0

\* The faults a frame can meet, one per frame: fillRect throws (clear), the
\* drawing of the particle in draw throws, the line-th stroke of
\* drawConnections throws.  A host whose canvas never throws has none.
Faults(faulty, n) ==
    {[clear |-> FALSE, draw |-> {}, line |-> 0]}
    \cup (IF ~faulty THEN {} ELSE
          {[clear |-> TRUE, draw |-> {}, line |-> 0]}
          \cup {[clear |-> FALSE, draw |-> {i}, line |-> 0] : i \in 1..n}
          \cup {[clear |-> FALSE, draw |-> {}, line |-> k] :
                   k \in 1..((n * (n - 1)) \div 2)})

\* the fields of the ParticleSystem that animate reads
This ==
    [particles |-> particles, canvas |-> canvas, lastFrame |-> lastFrame,
     frameCount |-> frameCount, mouse |-> mouse,
     interactionEnabled |-> interactionEnabled, isVisible |-> isVisible]

\* the part of animate after the forEach, whose outcome is fe: the
\* connections of even frames, the frame counter and the next request
AfterForEach(base, st, now, fault, fe) ==
    LET conn == ConnectionFrame(st.frameCount) /\ ~fe.aborted
        lg == [base EXCEPT !.cleared = TRUE, !.failing = fault.draw,
                           !.updated = fe.updated, !.drawn = fe.drawn,
                           !.conn = conn]
    IN  IF fe.aborted
        THEN [particles |-> fe.particles, lastFrame |-> now,
              frameCount |-> st.frameCount, request |-> FALSE,
              log |-> [lg EXCEPT !.threw = TRUE]]
        ELSE IF ~conn
        THEN [particles |-> fe.particles, lastFrame |-> now,
              frameCount |-> st.frameCount + 1, request |-> TRUE,
              log |-> [lg EXCEPT !.requested = TRUE]]
        ELSE CHOOSE r \in
               {IF fault.line > 0 /\ fault.line <= Len(all)
                THEN [particles |-> fe.particles, lastFrame |-> now,
                      frameCount |-> st.frameCount, request |-> FALSE,
                      log |-> [lg EXCEPT !.threw = TRUE,
                                         !.lines = SubSeq(all, 1, fault.line - 1)]]
                ELSE [particles |-> fe.particles, lastFrame |-> now,
                      frameCount |-> st.frameCount + 1, request |-> TRUE,
                      log |-> [lg EXCEPT !.lines = all, !.requested = TRUE]]
                  : all \in {drawConnections(fe.particles)}} : TRUE

\* animate() on the object st: the fields it leaves and what it did.  request
\* tells that requestAnimationFrame was called (animationId then becomes the
\* new handle, otherwise animationId becomes null).
Animate(op, st, now, fault) ==
    LET base == [Quiet(op) EXCEPT !.ran = TRUE, !.frameNo = st.frameCount]
    IN  IF AnimateGuard(st.isVisible, env)
        THEN [particles |-> st.particles, lastFrame |-> st.lastFrame,
              frameCount |-> st.frameCount, request |-> FALSE,
              log |-> [base EXCEPT !.early = TRUE]]
        ELSE IF fault.clear
        THEN [particles |-> st.particles, lastFrame |-> st.lastFrame,
              frameCount |-> st.frameCount, request |-> FALSE,
              log |-> [base EXCEPT !.threw = TRUE]]
        ELSE CHOOSE r \in
               {AfterForEach(base, st, now, fault, fe) : fe \in
                  {ForEachParticle(st.particles, FrameTime(now, st.lastFrame),
                                   st.canvas, st.mouse, st.interactionEnabled,
                                   fault.draw)}} : TRUE

\* an animate whose catch leaves animationId as it found it
ApplyAnimateKeepingId(res, queue) ==
    /\ particles' = res.particles
    /\ lastFrame' = res.lastFrame
    /\ frameCount' = res.frameCount
    /\ animationId' = IF res.request THEN nextId
                      ELSE IF res.log.threw THEN animationId ELSE 0
    /\ pending' = IF res.request THEN queue \cup {nextId} ELSE queue
    /\ nextId' = IF res.request THEN nextId + 1 ELSE nextId
    /\ ticks' = IF res.log.early THEN ticks ELSE ticks + 1
    /\ out' = res.log

\* an animate whose early return leaves animationId as it found it
ApplyAnimateEarlyKeepingId(res, queue) ==
    /\ particles' = res.particles
    /\ lastFrame' = res.lastFrame
    /\ frameCount' = res.frameCount
    /\ animationId' = IF res.request THEN nextId
                      ELSE IF res.log.early THEN animationId ELSE 0
    /\ pending' = IF res.request THEN queue \cup {nextId} ELSE queue
    /\ nextId' = IF res.request THEN nextId + 1 ELSE nextId
    /\ ticks' = IF res.log.early THEN ticks ELSE ticks + 1
    /\ out' = res.log

\* the writes of one call of animate; queue is the frame queue it finds
ApplyAnimate(res, queue) ==
    /\ particles' = res.particles
    /\ lastFrame' = res.lastFrame
    /\ frameCount' = res.frameCount
    /\ animationId' = IF res.request THEN nextId ELSE 0
    /\ pending' = IF res.request THEN queue \cup {nextId} ELSE queue
    /\ nextId' = IF res.request THEN nextId + 1 ELSE nextId
    /\ ticks' = IF res.log.early THEN ticks ELSE ticks + 1
    /\ out' = res.log

\* ------------------------------------------------------ the load handlers
\* the statements of the DOMContentLoaded handler of script.js after the
\* particle block
ScriptTail ==
    <<"navigation", "images", "smoothScroll", "navbarScroll", "observers",
      "parallax", "hover", "typewriter", "mouseFollow", "cleanup",
      "performance">>

\* the statements of the handler of part_001 after the effects block
EffectsTail ==
    <<"navigation", "images", "smoothScroll", "navbarScroll", "observers",
      "deferParallax", "hover", "deferReveal", "typewriter", "mouseFollow",
      "cleanup", "performance">>

\* the statements inside try { ... } of "Initialize all effects"
SyncEffects ==
    <<"initLoadingScreen", "initCustomCursor", "initScrollProgress",
      "initNavbarTracking", "deferEffects">>

\* the initializers of the callback that "Initialize all effects" defers
DeferredSteps ==
    <<"init3DCards", "initFloatingElements", "initParticleTrail",
      "initRippleEffect", "initMagneticButtons", "initSpotlightEffect",
      "initMeshGradients", "enhanceTitles", "initStarField",
      "initAuroraEffect", "initShootingStars", "initNeonPulse",
      "initDiamondParticles", "initEnhancedScrollReveal",
      "initQuantumButtons", "initCyberGrid", "initLaserBeams">>

\* the initializers the DOMContentLoaded handler of part_000 calls
EditorialSteps ==
    <<"initializeParticles", "initializeNavigation",
      "initializeScrollAnimations", "initializeProjectShowcase",
      "initializeTypeWriter", "initializeMagneticButtons",
      "initializeParallax", "initializeCustomCursor">>

\* a handler whose particle block has no try/catch around it
BlocksUncaught(f) ==
    IF f = "part_000" THEN <<[steps |-> EditorialSteps, caught |-> FALSE]>>
    ELSE IF f = "part_001"
    THEN <<[steps |-> <<"particles">>, caught |-> FALSE],
           [steps |-> SyncEffects, caught |-> TRUE],
           [steps |-> EffectsTail, caught |-> FALSE]>>
    ELSE <<[steps |-> <<"particles">>, caught |-> FALSE],
           [steps |-> ScriptTail, caught |-> FALSE]>>

\* The DOMContentLoaded handler of file f as blocks of statements; caught
\* tells that the block is the body of a try whose catch only logs.  The
\* particle block is new ParticleSystem(...), inside the try/catch of the
\* constructor and that of the handler.
Blocks(f) ==
    IF f = "part_000" THEN <<[steps |-> EditorialSteps, caught |-> FALSE]>>
    ELSE IF f = "part_001"
    THEN <<[steps |-> <<"particles">>, caught |-> TRUE],
           [steps |-> SyncEffects, caught |-> TRUE],
           [steps |-> EffectsTail, caught |-> FALSE]>>
    ELSE <<[steps |-> <<"particles">>, caught |-> TRUE],
           [steps |-> ScriptTail, caught |-> FALSE]>>

\* the callback of setTimeout(..., 1000) of "Initialize all effects"
DeferredBlocks == <<[steps |-> DeferredSteps, caught |-> FALSE]>>

\* the statements of a block that complete: those before the first that throws
BlockDone(steps, throwing) ==
    {steps[i] : i \in {k \in 1..Len(steps) :
                          \A j \in 1..k : steps[j] \notin throwing}}

BlockThrew(steps, throwing) == \E i \in 1..Len(steps) : steps[i] \in throwing

RECURSIVE RunBlocks(_, _, _)
\* Running the blocks from the k-th on, on a host where the statements in
\* throwing throw: the statements that complete, and whether an exception
\* leaves the handler (which ends it).
RunBlocks(blocks, k, throwing) ==
    IF k > Len(blocks) THEN [done |-> {}, escaped |-> FALSE]
    ELSE IF BlockThrew(blocks[k].steps, throwing) /\ ~blocks[k].caught
    THEN [done |-> BlockDone(blocks[k].steps, throwing), escaped |-> TRUE]
    ELSE [done |-> BlockDone(blocks[k].steps, throwing)
                     \cup RunBlocks(blocks, k + 1, throwing).done,
          escaped |-> RunBlocks(blocks, k + 1, throwing).escaped]

\* no load handler has run yet
NoSetup ==
    [setup |-> {}, escaped |-> FALSE, deferred |-> FALSE, throwing |-> {},
     thrown |-> "none"]

\* The page once its DOMContentLoaded handler has run: thrown is the step
\* of the particle block that threw ("none" if none did), throwing the
\* other statements that throw on this host.
AfterLoad(f, thrown, throwing) ==
    LET thr == IF thrown = "none" THEN throwing
               ELSE throwing \cup {Blocks(f)[1].steps[1]}
        r == RunBlocks(Blocks(f), 1, thr)
    IN  [setup |-> r.done, escaped |-> r.escaped,
         deferred |-> "deferEffects" \in r.done,
         throwing |-> throwing, thrown |-> thrown]

\* ------------------------------------------------------------------ inputs
Envs ==
    { [hasCanvas |-> TRUE, hasCtx |-> TRUE, reducedMotion |-> FALSE,
       webgl |-> TRUE, mobileUA |-> FALSE, innerWidth |-> 1400],
      [hasCanvas |-> TRUE, hasCtx |-> TRUE, reducedMotion |-> FALSE,
       webgl |-> FALSE, mobileUA |-> FALSE, innerWidth |-> 1400],
      [hasCanvas |-> TRUE, hasCtx |-> TRUE, reducedMotion |-> TRUE,
       webgl |-> TRUE, mobileUA |-> FALSE, innerWidth |-> 1000],
      [hasCanvas |-> TRUE, hasCtx |-> TRUE, reducedMotion |-> TRUE,
       webgl |-> TRUE, mobileUA |-> TRUE, innerWidth |-> 1400],
      [hasCanvas |-> TRUE, hasCtx |-> FALSE, reducedMotion |-> FALSE,
       webgl |-> TRUE, mobileUA |-> FALSE, innerWidth |-> 600],
      [hasCanvas |-> FALSE, hasCtx |-> FALSE, reducedMotion |-> FALSE,
       webgl |-> TRUE, mobileUA |-> FALSE, innerWidth |-> 1400] }

\* viewport widths on both sides of the two breakpoints of getParticleCount
Widths == {320, 767, 768, 1199, 1200, 1920}

\* hosts with a canvas, a 2D context and no reduced-motion preference, for
\* every width, user agent and WebGL availability
CountEnvs ==
    { [hasCanvas |-> TRUE, hasCtx |-> TRUE, reducedMotion |-> FALSE,
       webgl |-> g, mobileUA |-> m, innerWidth |-> w] :
      g \in BOOLEAN, m \in BOOLEAN, w \in Widths }

\* sizes of the canvas element, in px
Sizes == { [width |-> 4, height |-> 2], [width |-> 0, height |-> 0] }
StartSize == [width |-> 4, height |-> 2]

\* values of Math.random() for one particle, in eighths
Randoms ==
    { [x |-> 7, y |-> 0, vx |-> 0, vy |-> 6, bx |-> 4, by |-> 4, r |-> 0],
      [x |-> 0, y |-> 7, vx |-> 6, vy |-> 0, bx |-> 0, by |-> 6, r |-> 4] }

\* the draws of init() for the particles followed: any, or alternating ones
AnySeeds == [1..MaxParticles -> Randoms]
FixedSeeds ==
    {[i \in 1..MaxParticles |->
        CHOOSE r \in Randoms : r.x = (IF i % 2 = 1 THEN 7 ELSE 0)]}

\* elapsed milliseconds between two readings of Date.now()
Elapsed == {0, 100}
MotionElapsed == {0, 16, 100}

StartTime == 1000

\* pointer positions relative to the canvas, in px
MousePoints == { [x |-> 3, y |-> 1] }

\* the model follows a page until animate has begun MaxFrames frames
Running == ticks < MaxFrames

\* ------------------------------------------------------------- the page
\* The state before DOMContentLoaded: no ParticleSystem exists yet; the
\* fields hold the values the constructor assigns first.
InitOn(files, hosts) ==
    /\ file \in files
    /\ env \in hosts
    /\ phase = "load"
    /\ hidden = FALSE
    /\ layout = StartSize
    /\ clock = StartTime
    /\ pending = {}
    /\ nextId = 1
    /\ resizeTimeout = FALSE
    /\ listeners = FALSE
    /\ canvas = [width |-> 0, height |-> 0]
    /\ particles = <<>>
    /\ length = 0
    /\ particleCount = 0
    /\ animationId = 0
    /\ isVisible = TRUE
    /\ frameCount = 0
    /\ lastFrame = 0
    /\ mouse = [x |-> 0, y |-> 0]
    /\ interactionEnabled = FALSE
    /\ destroyed = FALSE
    /\ ticks = 0
    /\ page = NoSetup
    /\ out = Quiet("none")

InitPage(files) == InitOn(files, Envs) /\ WidgetsAbsent

Init == InitPage({"script.js", "part_001"})

\* init(): particleCount particles, of which the model keeps MaxParticles
init(count, cv, rnds) ==
    [i \in 1..Min(count, MaxParticles) |-> NewParticle(rnds[i], cv)]

\* The step of the constructor that throws on a host where the step at
\* would throw if it were reached ("none": the constructor ends normally).
\* No ParticleSystem is constructed without a canvas element; without a 2D
\* context and under reduced motion the constructor returns before resize.
ThrownAt(e, at) ==
    IF ~e.hasCanvas THEN "none"
    ELSE IF at \in {"getContext", "getParticleCount"} THEN at
    ELSE IF ~e.hasCtx THEN "none"
    ELSE IF at = "matchMedia" THEN at
    ELSE IF ReducedMotionExit(e) THEN "none"
    ELSE at

\* the steps of the constructor that can throw before it returns; animate
\* and checkWebGLSupport catch their own exceptions
ConstructFaults(hostile) ==
    {"none"} \cup (IF ~hostile THEN {} ELSE
                   {"getContext", "getParticleCount", "matchMedia", "resize",
                    "init", "setupEventListeners"})

\* the statements of the handler of file f other than its particle block
OtherStatements(f) ==
    UNION {Range(Blocks(f)[k].steps) : k \in 1..Len(Blocks(f))}
        \ {Blocks(f)[1].steps[1]}

\* the statements outside the particle block that throw on a host: none,
\* or on a hostile host any one of them
StepFaults(hostile, f) ==
    {{}} \cup (IF ~hostile THEN {} ELSE {{st} : st \in OtherStatements(f)})

\* DOMContentLoaded of script.js and part_001: new ParticleSystem(canvas)
\* inside try/catch, then the rest of the handler
ConstructOf(seeds, faulty, hostile) ==
    /\ phase = "load"
    /\ UNCHANGED widgets
    /\ file \in {"script.js", "part_001"}
    /\ phase' = "ready"
    /\ UNCHANGED <<file, env, hidden, layout, clock, resizeTimeout, destroyed>>
    /\ \E at \in ConstructFaults(hostile), thr \in StepFaults(hostile, file) :
       \E th \in {ThrownAt(env, at)} :
       /\ page' = AfterLoad(file, th, thr)
       /\ IF ~env.hasCanvas
          THEN /\ out' = Quiet("construct")
               /\ UNCHANGED <<length, ticks, pending, nextId, listeners, canvas, particles,
                              particleCount, animationId, isVisible, frameCount,
                              lastFrame, mouse, interactionEnabled>>
          ELSE IF th \in {"getContext", "getParticleCount"}
          THEN \* the fields after the throwing line are never assigned
               /\ isVisible' = FALSE
               /\ out' = [Quiet("construct") EXCEPT !.calls = {th}, !.threw = TRUE]
               /\ UNCHANGED <<length, ticks, pending, nextId, listeners, canvas, particles,
                              particleCount, animationId, frameCount, lastFrame,
                              mouse, interactionEnabled>>
          ELSE IF ~env.hasCtx \/ th = "matchMedia" \/ ReducedMotionExit(env)
          THEN /\ particleCount' = getParticleCount(env)
               /\ interactionEnabled' = (file = "part_001")
               /\ out' = [Quiet("construct") EXCEPT !.calls = {"getParticleCount"},
                                                    !.threw = (th # "none")]
               /\ UNCHANGED <<length, ticks, pending, nextId, listeners, canvas, particles,
                              animationId, isVisible, frameCount, lastFrame, mouse>>
          ELSE IF th \in {"resize", "init"}
          THEN /\ particleCount' = CreatedCount(env)
               /\ interactionEnabled' = ((file = "part_001") /\ checkWebGLSupport(env))
               /\ canvas' = IF th = "init" THEN layout ELSE canvas
               /\ out' = [Quiet("construct") EXCEPT
                            !.calls = {"getParticleCount", "checkWebGLSupport", "resize"}
                                      \cup (IF th = "init" THEN {"init"} ELSE {}),
                            !.threw = TRUE]
               /\ UNCHANGED <<length, ticks, pending, nextId, listeners, particles,
                              animationId, isVisible, frameCount, lastFrame, mouse>>
          ELSE \E rnds \in seeds, fault \in Faults(faulty, MaxParticles) :
               LET count == CreatedCount(env)
                   inter == (file = "part_001") /\ checkWebGLSupport(env)
                   st == [particles |-> init(count, layout, rnds), canvas |-> layout,
                          lastFrame |-> 0, frameCount |-> 0, mouse |-> mouse,
                          interactionEnabled |-> inter, isVisible |-> TRUE]
               IN  \E res \in {Animate("construct", st, clock, fault)} :
                   /\ particleCount' = count
                   /\ length' = count
                   /\ interactionEnabled' = inter
                   /\ canvas' = layout
                   /\ isVisible' = TRUE
                   /\ mouse' = mouse
                   /\ listeners' = (th # "setupEventListeners")
                   /\ ApplyAnimate([res EXCEPT !.log.calls =
                           {"getParticleCount", "checkWebGLSupport", "resize",
                            "init", "animate", "setupEventListeners"}], pending)

\* a frame callback of the host: () => this.animate()
FrameCallbackOf(elapsed, faulty) ==
    /\ Running
    /\ UNCHANGED widgets
    /\ UNCHANGED <<length, page, file, env, phase, hidden, layout, resizeTimeout, listeners,
                   canvas, particleCount, isVisible, mouse, interactionEnabled,
                   destroyed>>
    /\ \E id \in pending, e \in elapsed, fault \in Faults(faulty, Len(particles)) :
         \E res \in {Animate("frame", This, clock + e, fault)} :
             /\ ApplyAnimate(res, pending \ {id})
             /\ clock' = IF res.log.cleared THEN clock + e ELSE clock

\* a listener that restarts the loop whenever the page becomes visible
ResumeWithoutIdCheck(vis, id) == vis

\* a listener whose test of animationId lost its negation
ResumeWithInvertedCheck(vis, id) == vis /\ id # 0

\* if (this.isVisible && !this.animationId)
ShouldResume(vis, id) == vis /\ id = 0

\* document.hidden flips and the visibilitychange listener (if any) runs
VisibilityChangeOf(elapsed, faulty) ==
    /\ Running
    /\ UNCHANGED widgets
    /\ phase = "ready"
    /\ hidden' = ~hidden
    /\ UNCHANGED <<length, page, file, env, phase, layout, resizeTimeout, listeners, canvas,
                   particleCount, mouse, interactionEnabled, destroyed>>
    /\ IF ~listeners
       THEN /\ out' = Quiet("visibility")
            /\ UNCHANGED <<length, page, ticks, clock, pending, nextId, particles, animationId,
                           isVisible, frameCount, lastFrame>>
       ELSE /\ isVisible' = hidden
            /\ IF ShouldResume(hidden, animationId)
               THEN \E e \in elapsed, fault \in Faults(faulty, Len(particles)) :
                      \E res \in {Animate("visibility",
                                            [This EXCEPT !.isVisible = hidden],
                                            clock + e, fault)} :
                          /\ ApplyAnimate(res, pending)
                          /\ clock' = IF res.log.cleared THEN clock + e ELSE clock
               ELSE /\ out' = Quiet("visibility")
                    /\ UNCHANGED <<length, page, ticks, clock, pending, nextId, particles, animationId,
                                   frameCount, lastFrame>>

\* window resize: the layout changes, the listener restarts its timeout
WindowResize ==
    /\ Running
    /\ UNCHANGED widgets
    /\ phase = "ready"
    /\ \E sz \in Sizes \ {layout} : layout' = sz
    /\ resizeTimeout' = listeners
    /\ out' = Quiet("resizeEvent")
    /\ UNCHANGED <<length, page, ticks, file, env, phase, hidden, clock, pending, nextId, listeners,
                   canvas, particles, particleCount, animationId, isVisible,
                   frameCount, lastFrame, mouse, interactionEnabled, destroyed>>

\* a resize that builds the particles anew without emptying the array
ResizeAndInit ==
    /\ Running
    /\ UNCHANGED widgets
    /\ resizeTimeout
    /\ resizeTimeout' = FALSE
    /\ canvas' = layout
    /\ length' = length + particleCount
    /\ out' = [Quiet("resize") EXCEPT !.calls = {"init"}]
    /\ UNCHANGED <<page, ticks, file, env, phase, hidden, layout, clock, pending,
                   nextId, listeners, particles, particleCount, animationId,
                   isVisible, frameCount, lastFrame, mouse, interactionEnabled,
                   destroyed>>

\* the timeout of the resize listener fires: resize()
ResizeTimeout ==
    /\ Running
    /\ UNCHANGED widgets
    /\ resizeTimeout
    /\ resizeTimeout' = FALSE
    /\ canvas' = layout
    /\ out' = Quiet("resize")
    /\ UNCHANGED <<length, page, ticks, file, env, phase, hidden, layout, clock, pending, nextId,
                   listeners, particles, particleCount, animationId, isVisible,
                   frameCount, lastFrame, mouse, interactionEnabled, destroyed>>

\* the mousemove listener of part_001
MouseMove ==
    /\ Running
    /\ UNCHANGED widgets
    /\ listeners /\ interactionEnabled
    /\ \E pt \in MousePoints :
         /\ mouse # [x |-> pt.x * Sub, y |-> pt.y * Sub]
         /\ mouse' = [x |-> pt.x * Sub, y |-> pt.y * Sub]
    /\ out' = Quiet("mousemove")
    /\ UNCHANGED <<length, page, ticks, file, env, phase, hidden, layout, clock, pending, nextId,
                   resizeTimeout, listeners, canvas, particles, particleCount,
                   animationId, isVisible, frameCount, lastFrame,
                   interactionEnabled, destroyed>>

\* the mouseleave listener of part_001
MouseLeave ==
    /\ Running
    /\ UNCHANGED widgets
    /\ listeners /\ interactionEnabled
    /\ mouse # [x |-> 0 - MouseLeavePx * Sub, y |-> 0 - MouseLeavePx * Sub]
    /\ mouse' = [x |-> 0 - MouseLeavePx * Sub, y |-> 0 - MouseLeavePx * Sub]
    /\ out' = Quiet("mouseleave")
    /\ UNCHANGED <<length, page, ticks, file, env, phase, hidden, layout, clock, pending, nextId,
                   resizeTimeout, listeners, canvas, particles, particleCount,
                   animationId, isVisible, frameCount, lastFrame,
                   interactionEnabled, destroyed>>

\* destroy(), called by the beforeunload cleanup or directly
Destroy ==
    /\ Running
    /\ UNCHANGED widgets
    /\ phase = "ready" /\ env.hasCanvas
    /\ ~destroyed
    /\ destroyed' = TRUE
    /\ animationId' = 0
    /\ pending' = IF animationId # 0 THEN pending \ {animationId} ELSE pending
    /\ out' = Quiet("destroy")
    /\ UNCHANGED <<length, page, ticks, file, env, phase, hidden, layout, clock, nextId,
                   resizeTimeout, listeners, canvas, particles, particleCount,
                   isVisible, frameCount, lastFrame, mouse, interactionEnabled>>

\* ---------------------------------------------------- part_000: the page
\* animate() of initializeParticles on the particles ps; ctx.clearRect
\* throws a TypeError when getContext returned null
EditorialAnimate(op, ps, cv) ==
    IF ~env.hasCtx
    THEN [particles |-> ps, request |-> FALSE,
          log |-> [Quiet(op) EXCEPT !.ran = TRUE, !.threw = TRUE]]
    ELSE CHOOSE r \in
           {[particles |-> upd, request |-> TRUE,
             log |-> [Quiet(op) EXCEPT
                        !.ran = TRUE, !.cleared = TRUE,
                        !.updated = [i \in 1..Len(ps) |-> i],
                        !.drawn = [i \in 1..Len(ps) |->
                                     [i |-> i, x |-> upd[i].x, y |-> upd[i].y]],
                        !.conn = TRUE,
                        !.lines = EditorialConnections(upd),
                        !.requested = TRUE]]
              : upd \in {[i \in 1..Len(ps) |-> EditorialUpdate(ps[i], cv)]}} : TRUE

\* DOMContentLoaded of part_000: initializeParticles(), then the other
\* initializers, none of them inside a try
EditorialLoad ==
    /\ phase = "load"
    /\ UNCHANGED widgets
    /\ file = "part_000"
    /\ phase' = "ready"
    /\ UNCHANGED <<file, env, hidden, layout, clock, resizeTimeout,
                   animationId, isVisible, frameCount, lastFrame, mouse,
                   interactionEnabled, destroyed>>
    /\ \E thr \in StepFaults(TRUE, file) :
       IF ~env.hasCanvas
       THEN /\ out' = Quiet("load")
            /\ page' = AfterLoad(file, "none", thr)
            /\ UNCHANGED <<length, ticks, pending, nextId, listeners, canvas, particles,
                           particleCount>>
       ELSE \E rnds \in AnySeeds :
            \E res \in {EditorialAnimate("load",
                            init(EditorialCount, layout, rnds), layout)} :
                /\ canvas' = layout
                /\ particleCount' = EditorialCount
                /\ length' = EditorialCount
                /\ particles' = res.particles
                /\ pending' = IF res.request THEN pending \cup {nextId} ELSE pending
                /\ nextId' = IF res.request THEN nextId + 1 ELSE nextId
                /\ ticks' = ticks + 1
                /\ listeners' = res.request
                /\ page' = AfterLoad(file, IF res.log.threw THEN "animate" ELSE "none",
                                     thr)
                /\ out' = [res.log EXCEPT !.calls = {"init", "animate"}]

\* a frame callback of the host: animate
EditorialFrame ==
    /\ Running
    /\ UNCHANGED widgets
    /\ file = "part_000"
    /\ UNCHANGED <<length, page, file, env, phase, hidden, layout, clock, resizeTimeout,
                   listeners, canvas, particleCount, animationId, isVisible,
                   frameCount, lastFrame, mouse, interactionEnabled, destroyed>>
    /\ \E id \in pending :
       \E res \in {EditorialAnimate("frame", particles, canvas)} :
         /\ particles' = res.particles
         /\ pending' = IF res.request THEN (pending \ {id}) \cup {nextId}
                       ELSE pending \ {id}
         /\ nextId' = IF res.request THEN nextId + 1 ELSE nextId
         /\ ticks' = ticks + 1
         /\ out' = res.log

\* window resize: the listener of part_000 sizes the canvas at once
EditorialResize ==
    /\ Running
    /\ UNCHANGED widgets
    /\ file = "part_000"
    /\ phase = "ready"
    /\ \E sz \in Sizes \ {layout} :
         /\ layout' = sz
         /\ canvas' = IF listeners THEN sz ELSE canvas
    /\ out' = Quiet("resize")
    /\ UNCHANGED <<length, page, ticks, file, env, phase, hidden, clock, pending, nextId,
                   resizeTimeout, listeners, particles, particleCount,
                   animationId, isVisible, frameCount, lastFrame, mouse,
                   interactionEnabled, destroyed>>

\* ------------------------------------------- part_001: deferred effects
\* the callback of setTimeout(() => { init3DCards(); ... }, 1000)
DeferredEffectsOf(hostile) ==
    /\ page.deferred
    /\ UNCHANGED widgets
    /\ \E thr \in {{}} \cup (IF ~hostile THEN {} ELSE
                             {{st} : st \in Range(DeferredSteps)}) :
         \E r \in {RunBlocks(DeferredBlocks, 1, thr)} :
           page' = [page EXCEPT !.deferred = FALSE,
                                !.setup = @ \cup r.done,
                                !.escaped = @ \/ r.escaped,
                                !.throwing = @ \cup thr]
    /\ out' = Quiet("effects")
    /\ UNCHANGED <<length, ticks, file, env, phase, hidden, layout, clock, pending,
                   nextId, resizeTimeout, listeners, canvas, particles,
                   particleCount, animationId, isVisible, frameCount, lastFrame,
                   mouse, interactionEnabled, destroyed>>

\* ------------------------------------------------ one connection pass
\* positions of particles, in px
ConnPoints ==
    { [x |-> 0, y |-> 0], [x |-> 48, y |-> 64], [x |-> 60, y |-> 0],
      [x |-> 90, y |-> 120], [x |-> 10, y |-> 10], [x |-> 70, y |-> 10] }

\* particles of one connection pass
ConnParticles == 3

\* a particle at rest at the point pt
ParticleAt(pt) ==
    [x |-> pt.x * Sub, y |-> pt.y * Sub, vx |-> 0, vy |-> 0,
     baseVx |-> 0, baseVy |-> 0, radius |-> Sub]

\* drawConnections() of script.js and part_001 on the particles as they are
ConnectionPass ==
    /\ file \in {"script.js", "part_001"}
    /\ UNCHANGED widgets
    /\ out.op = "none"
    /\ out' = [Quiet("connections") EXCEPT !.conn = TRUE,
                                           !.lines = drawConnections(particles)]
    /\ UNCHANGED <<length, page, ticks, file, env, phase, hidden, layout, clock, pending,
                   nextId, resizeTimeout, listeners, canvas, particles,
                   particleCount, animationId, isVisible, frameCount, lastFrame,
                   mouse, interactionEnabled, destroyed>>

\* the connection block of part_000 on the particles as they are
EditorialConnectionPass ==
    /\ file = "part_000"
    /\ UNCHANGED widgets
    /\ out.op = "none"
    /\ out' = [Quiet("connections") EXCEPT !.conn = TRUE,
                                           !.lines = EditorialConnections(particles)]
    /\ UNCHANGED <<length, page, ticks, file, env, phase, hidden, layout, clock, pending,
                   nextId, resizeTimeout, listeners, canvas, particles,
                   particleCount, animationId, isVisible, frameCount, lastFrame,
                   mouse, interactionEnabled, destroyed>>

\* ------------------------------------------------------ specifications
\* The life of a ParticleSystem on a host whose canvas may throw.
Construct == ConstructOf(FixedSeeds, TRUE, FALSE)
FrameCallback == FrameCallbackOf(Elapsed, TRUE)
VisibilityChange == VisibilityChangeOf(Elapsed, TRUE)

Next ==
    \/ Construct
    \/ FrameCallback
    \/ VisibilityChange
    \/ WindowResize
    \/ ResizeTimeout
    \/ MouseMove
    \/ MouseLeave
    \/ Destroy

Spec == Init /\ [][Next]_vars

\* The motion of the particles: every draw of init(), short and long
\* frames, resizes and the pointer, on a host whose canvas never throws.
MotionConstruct == ConstructOf(AnySeeds, FALSE, FALSE)
MotionFrame == FrameCallbackOf(MotionElapsed, FALSE)

MotionInit == InitPage({"script.js", "part_001"}) /\ ~env.reducedMotion

MotionNext ==
    \/ MotionConstruct
    \/ MotionFrame
    \/ WindowResize
    \/ ResizeTimeout
    \/ MouseMove
    \/ MouseLeave

MotionSpec == MotionInit /\ [][MotionNext]_vars

\* The construction of a ParticleSystem on every host of CountEnvs, and
\* the frames that follow it.
CountInit == InitOn({"script.js", "part_001"}, CountEnvs) /\ WidgetsAbsent

CountNext ==
    \/ MotionConstruct
    \/ MotionFrame

CountSpec == CountInit /\ [][CountNext]_vars

\* The loop of part_000.
EditorialInit == InitPage({"part_000"})

EditorialNext ==
    \/ EditorialLoad
    \/ EditorialFrame
    \/ EditorialResize

EditorialSpec == EditorialInit /\ [][EditorialNext]_vars

\* One connection pass of each file over particles placed anywhere.
ConnInit ==
    /\ WidgetsAbsent
    /\ file \in {"script.js", "part_001", "part_000"}
    /\ env \in {e \in Envs : e.hasCtx /\ ~e.reducedMotion /\ e.webgl}
    /\ phase = "ready"
    /\ hidden = FALSE
    /\ layout = [width |-> 800, height |-> 600]
    /\ clock = StartTime
    /\ pending = {}
    /\ nextId = 1
    /\ resizeTimeout = FALSE
    /\ listeners = TRUE
    /\ canvas = [width |-> 800, height |-> 600]
    /\ particles \in [1..ConnParticles -> {ParticleAt(pt) : pt \in ConnPoints}]
    /\ length = ConnParticles
    /\ particleCount = ConnParticles
    /\ animationId = 0
    /\ isVisible = TRUE
    /\ frameCount = 0
    /\ lastFrame = 0
    /\ mouse = [x |-> 0, y |-> 0]
    /\ interactionEnabled = FALSE
    /\ destroyed = FALSE
    /\ ticks = 0
    /\ page = NoSetup
    /\ out = Quiet("none")

ConnNext ==
    \/ ConnectionPass
    \/ EditorialConnectionPass

ConnSpec == ConnInit /\ [][ConnNext]_vars

\* The loop of script.js on a host that runs every pending frame callback.
LiveInit == InitPage({"script.js"}) /\ ~env.reducedMotion

LiveNext ==
    \/ Construct
    \/ FrameCallback
    \/ VisibilityChange
    \/ WindowResize
    \/ ResizeTimeout
    \/ Destroy

FairSpec == LiveInit /\ [][LiveNext]_vars /\ WF_vars(FrameCallback)

\* The load handlers of the three files on a host where one step of the
\* construction and one other statement may throw.
SetupConstruct == ConstructOf(FixedSeeds, TRUE, TRUE)
DeferredEffects == DeferredEffectsOf(TRUE)

SetupInit == InitPage({"script.js", "part_001", "part_000"})

SetupNext ==
    \/ SetupConstruct
    \/ EditorialLoad
    \/ DeferredEffects

SetupSpec == SetupInit /\ [][SetupNext]_vars

\* ----------------------------------------- the resize listener in time
\* debounce follows the timeouts of the resize listener: handle is the
\* closure variable resizeTimeout (0 while undefined), timers the pending
\* timeouts with the time they are due, nextTimer the next handle of
\* setTimeout.  last is the time of the latest resize event, burst the
\* number of events that each came less than ResizeDelay after the one
\* before, calls the calls of resize() since that burst began.
NoTimeouts ==
    [handle |-> 0, timers |-> {}, nextTimer |-> 1, events |-> 0,
     last |-> 0, burst |-> 0, calls |-> 0]

\* time passes between the events
TimeSteps == {50, 100}

\* clearTimeout(handle)
clearTimeout(timers, handle) == {t \in timers : t.id # handle}

\* a listener that sets the new timeout without clearing the old one
ResizeEventNoClear ==
    /\ phase = "ready" /\ listeners
    /\ debounce.events < MaxEvents
    /\ \E sz \in Sizes \ {layout} : layout' = sz
    /\ resizeTimeout' = TRUE
    /\ debounce' =
         [handle |-> debounce.nextTimer,
          timers |-> debounce.timers
                     \cup {[id |-> debounce.nextTimer, due |-> clock + ResizeDelay]},
          nextTimer |-> debounce.nextTimer + 1,
          events |-> debounce.events + 1,
          last |-> clock,
          burst |-> IF debounce.burst > 0 /\ clock - debounce.last < ResizeDelay
                    THEN debounce.burst + 1 ELSE 1,
          calls |-> IF debounce.burst > 0 /\ clock - debounce.last < ResizeDelay
                    THEN debounce.calls ELSE 0]
    /\ out' = Quiet("resizeEvent")
    /\ UNCHANGED <<length, page, ticks, file, env, phase, hidden, clock, pending,
                   nextId, listeners, canvas, particles, particleCount,
                   animationId, isVisible, frameCount, lastFrame, mouse,
                   interactionEnabled, destroyed>>
    /\ UNCHANGED <<nav, hero, subtitle, stat, counter>>

\* the resize listener: clearTimeout(resizeTimeout);
\* resizeTimeout = setTimeout(() => this.resize(), 150)
ResizeEvent ==
    /\ phase = "ready" /\ listeners
    /\ debounce.events < MaxEvents
    /\ \E sz \in Sizes \ {layout} : layout' = sz
    /\ resizeTimeout' = TRUE
    /\ debounce' =
         [handle |-> debounce.nextTimer,
          timers |-> clearTimeout(debounce.timers, debounce.handle)
                     \cup {[id |-> debounce.nextTimer, due |-> clock + ResizeDelay]},
          nextTimer |-> debounce.nextTimer + 1,
          events |-> debounce.events + 1,
          last |-> clock,
          burst |-> IF debounce.burst > 0 /\ clock - debounce.last < ResizeDelay
                    THEN debounce.burst + 1 ELSE 1,
          calls |-> IF debounce.burst > 0 /\ clock - debounce.last < ResizeDelay
                    THEN debounce.calls ELSE 0]
    /\ out' = Quiet("resizeEvent")
    /\ UNCHANGED <<length, page, ticks, file, env, phase, hidden, clock, pending,
                   nextId, listeners, canvas, particles, particleCount,
                   animationId, isVisible, frameCount, lastFrame, mouse,
                   interactionEnabled, destroyed>>
    /\ UNCHANGED <<nav, hero, subtitle, stat, counter>>

\* a timeout of the listener is due and runs: this.resize()
TimeoutFires ==
    /\ phase = "ready"
    /\ \E t \in debounce.timers :
         /\ clock >= t.due
         /\ debounce' = [debounce EXCEPT !.timers = @ \ {t},
                                         !.calls = @ + 1]
         /\ resizeTimeout' = (debounce.timers \ {t} # {})
    /\ canvas' = layout
    /\ out' = Quiet("resize")
    /\ UNCHANGED <<length, page, ticks, file, env, phase, hidden, layout, clock,
                   pending, nextId, listeners, particles, particleCount,
                   animationId, isVisible, frameCount, lastFrame, mouse,
                   interactionEnabled, destroyed>>
    /\ UNCHANGED <<nav, hero, subtitle, stat, counter>>

\* time passes; a timeout may run later than it is due, never earlier
TimePasses ==
    /\ phase = "ready"
    /\ \E d \in TimeSteps :
         /\ clock + d <= StartTime + MaxWait
         /\ clock' = clock + d
    /\ UNCHANGED <<length, page, ticks, file, env, phase, hidden, layout, pending,
                   nextId, resizeTimeout, listeners, canvas, particles,
                   particleCount, animationId, isVisible, frameCount, lastFrame,
                   mouse, interactionEnabled, destroyed, out>>
    /\ UNCHANGED widgets

DebounceConstruct == ConstructOf(FixedSeeds, FALSE, FALSE)

DebounceInit ==
    /\ InitOn({"script.js", "part_001"}, {e \in Envs : e.hasCtx /\ ~e.reducedMotion})
    /\ debounce = NoTimeouts
    /\ nav = Absent /\ hero = Absent /\ subtitle = Absent
    /\ stat = Absent /\ counter = Absent

DebounceNext ==
    \/ DebounceConstruct
    \/ ResizeEvent
    \/ TimeoutFires
    \/ TimePasses

DebounceSpec == DebounceInit /\ [][DebounceNext]_vars

\* ------------------------------------------------- the mobile navigation
\* nav holds the class 'active' of the toggle and of the menu, the attribute
\* aria-expanded of the toggle ("none" while it is not set), window.scrollY
\* and the click handled last.

\* offsetTop of the sections the links point to, and navbar.offsetHeight
SectionTops == {100, 700}
NavbarHeight == 60

\* The element a click hits: the toggle, an anchor of the menu (the A
\* element itself or an element nested in it; its href is a hash with or
\* without a section of that id, or another page), the menu beside its
\* links, or the rest of the document.
ClickTargets ==
    {[on |-> "toggle", nested |-> FALSE, href |-> "none", top |-> 0],
     [on |-> "menu", nested |-> FALSE, href |-> "none", top |-> 0],
     [on |-> "outside", nested |-> FALSE, href |-> "none", top |-> 0]}
    \cup {[on |-> "link", nested |-> n, href |-> "section", top |-> t] :
             n \in BOOLEAN, t \in SectionTops}
    \cup {[on |-> "link", nested |-> n, href |-> h, top |-> 0] :
             n \in BOOLEAN, h \in {"missing", "page"}}

\* the menus that agree: closed (aria-expanded "false" or not set) or open
NavStates ==
    {[toggle |-> FALSE, menu |-> FALSE, aria |-> "false"],
     [toggle |-> FALSE, menu |-> FALSE, aria |-> "none"],
     [toggle |-> TRUE, menu |-> TRUE, aria |-> "true"]}

\* navToggle.setAttribute('aria-expanded', b): the attribute is a string
AriaOf(b) == IF b THEN "true" ELSE "false"

\* e.target.tagName === 'A'
TargetIsAnchor(t) == t.on = "link" /\ ~t.nested

\* script.js and part_001: the click listeners of the toggle, of the links
\* (smooth scroll), of the menu and of the document, in the order the
\* event reaches them
MobileNavClick(n, t) ==
    LET scrolled == IF t.on = "link" /\ t.href = "section"
                    THEN t.top - ScrollOffset ELSE n.scrollY
        closed == [n EXCEPT !.toggle = FALSE, !.menu = FALSE,
                            !.aria = AriaOf(FALSE), !.scrollY = scrolled,
                            !.last = t]
    IN  IF t.on = "toggle"
        THEN [n EXCEPT !.toggle = ~n.toggle, !.menu = ~n.menu,
                       !.aria = AriaOf(~n.toggle), !.last = t]
        ELSE IF t.on = "link" /\ TargetIsAnchor(t) THEN closed
        ELSE IF t.on = "outside" THEN closed
        ELSE [n EXCEPT !.scrollY = scrolled, !.last = t]

\* part_000: the click listeners of the toggle and of the links
EditorialNavClick(n, t) ==
    IF t.on = "toggle"
    THEN [n EXCEPT !.menu = ~n.menu,
                   !.aria = IF n.aria = "true" THEN "false" ELSE "true",
                   !.last = t]
    ELSE IF t.on = "link" /\ t.href = "section"
    THEN [n EXCEPT !.menu = FALSE,
                   !.scrollY = t.top - (NavbarHeight + NavbarGap),
                   !.last = t]
    ELSE [n EXCEPT !.last = t]

\* one click on the page of script.js or part_001
MobileClick ==
    /\ file \in {"script.js", "part_001"}
    /\ \E t \in ClickTargets : nav' = MobileNavClick(nav, t)
    /\ UNCHANGED <<system, hero, subtitle, stat, counter, debounce>>

\* one click on the page of part_000
EditorialClick ==
    /\ file = "part_000"
    /\ \E t \in ClickTargets : nav' = EditorialNavClick(nav, t)
    /\ UNCHANGED <<system, hero, subtitle, stat, counter, debounce>>

NavInit ==
    /\ InitOn({"script.js", "part_001", "part_000"},
              {e \in Envs : e.hasCanvas /\ e.hasCtx /\ ~e.reducedMotion /\ e.webgl})
    /\ \E st \in NavStates :
         nav = [toggle |-> st.toggle, menu |-> st.menu, aria |-> st.aria,
                scrollY |-> 0,
                last |-> [on |-> "none", nested |-> FALSE, href |-> "none",
                          top |-> 0]]
    /\ hero = Absent /\ subtitle = Absent /\ stat = Absent
    /\ counter = Absent /\ debounce = Absent

NavNext ==
    \/ MobileClick
    \/ EditorialClick

NavSpec == NavInit /\ [][NavNext]_vars

\* ------------------------------------------- the hero title typewriter
\* hero holds the child nodes of the h1 (text nodes and the cursor span),
\* the closure variables text and i, the timeout that is pending ("type"
\* for typeWriter, "cursor" for the callback that hides the cursor) and the
\* number of character steps typeWriter has made.

\* the titles of the page: every string of at most MaxTitle characters
TitleChars == {"A", "I"}
Titles == UNION {[1..n -> TitleChars] : n \in 0..MaxTitle}

\* node.textContent of an element: the text of its children, concatenated
RECURSIVE TextContent(_)
TextContent(nodes) ==
    IF nodes = <<>> THEN <<>>
    ELSE Head(nodes).data \o TextContent(Tail(nodes))

\* element.textContent = str: one text node replaces all the children
SetTextContent(str) ==
    IF str = <<>> THEN <<>> ELSE <<[kind |-> "text", data |-> str]>>

\* the span the handler creates: cursor.textContent = '|'
CursorSpan == [kind |-> "span", data |-> <<"|">>]

\* the h1 before the handler runs
HeroInit ==
    /\ InitOn({"script.js", "part_001"},
              {e \in Envs : e.hasCanvas /\ e.hasCtx /\ ~e.reducedMotion /\ e.webgl})
    /\ \E t \in Titles :
         hero = [children |-> SetTextContent(t), text |-> <<>>, i |-> 0,
                 timer |-> "none", steps |-> 0, set |-> FALSE,
                 cursorOpacity |-> "1"]
    /\ nav = Absent /\ subtitle = Absent /\ stat = Absent
    /\ counter = Absent /\ debounce = Absent

\* the block of the load handler: text = heroTitle.textContent;
\* heroTitle.textContent = ''; heroTitle.appendChild(cursor);
\* setTimeout(typeWriter, 1500)
HeroSetup ==
    /\ ~hero.set
    /\ hero' = [hero EXCEPT !.text = TextContent(hero.children),
                            !.children = Append(SetTextContent(<<>>), CursorSpan),
                            !.i = 0,
                            !.timer = "type",
                            !.set = TRUE]
    /\ UNCHANGED <<system, nav, subtitle, stat, counter, debounce>>

\* typeWriter(): heroTitle.textContent += text.charAt(i); i++, or the
\* timeout that hides the cursor when i has reached text.length
TypeWriter ==
    /\ hero.set /\ hero.timer = "type"
    /\ hero' = IF hero.i < Len(hero.text)
               THEN [hero EXCEPT
                       !.children = SetTextContent(TextContent(hero.children)
                                                   \o <<hero.text[hero.i + 1]>>),
                       !.i = @ + 1,
                       !.steps = @ + 1,
                       !.timer = "type"]
               ELSE [hero EXCEPT !.timer = "cursor"]
    /\ UNCHANGED <<system, nav, subtitle, stat, counter, debounce>>

\* the last timeout: cursor.style.animation = 'none'; opacity = '0'
HideCursor ==
    /\ hero.set /\ hero.timer = "cursor"
    /\ hero' = [hero EXCEPT !.timer = "none", !.cursorOpacity = "0"]
    /\ UNCHANGED <<system, nav, subtitle, stat, counter, debounce>>

HeroNext ==
    \/ HeroSetup
    \/ TypeWriter
    \/ HideCursor

HeroSpec == HeroInit /\ [][HeroNext]_vars

\* ------------------------------------- part_000: the subtitle typewriter
\* subtitle holds the closure variables of initializeTypeWriter
\* (subtitleIndex, charIndex, isDeleting, typeSpeed), the text content of
\* the .hero-subtitle element, the end index type() passed to substring
\* last, the delay of the timeout that is pending (0: none) and whether
\* type() has run.
subtitles ==
    <<"AI Researcher at KAIST",
      "Machine Learning Engineer",
      "Computer Science Student",
      "Innovation Through Research">>

\* str.substring(0, end): end is clamped to 0..str.length
substring(str, end) ==
    SubSeq(str, 1, IF end < 0 THEN 0 ELSE IF end > Len(str) THEN Len(str) ELSE end)

\* a type() that never moves on to the next subtitle
typeSameSubtitle(st) ==
    LET currentSubtitle == subtitles[st.subtitleIndex + 1]
        end == IF st.isDeleting THEN st.charIndex - 1 ELSE st.charIndex + 1
        typed == [st EXCEPT !.textContent = substring(currentSubtitle, end),
                            !.end = end,
                            !.charIndex = end,
                            !.typeSpeed = IF st.isDeleting THEN 50 ELSE 100,
                            !.typed = TRUE]
        turned == IF ~typed.isDeleting /\ typed.charIndex = Len(currentSubtitle)
                  THEN [typed EXCEPT !.typeSpeed = 2000, !.isDeleting = TRUE]
                  ELSE IF typed.isDeleting /\ typed.charIndex = 0
                  THEN [typed EXCEPT !.isDeleting = FALSE, !.typeSpeed = 500]
                  ELSE typed
    IN  [turned EXCEPT !.timeout = turned.typeSpeed]

\* a type() that turns to deleting one character late
typeLateTurn(st) ==
    LET currentSubtitle == subtitles[st.subtitleIndex + 1]
        end == IF st.isDeleting THEN st.charIndex - 1 ELSE st.charIndex + 1
        typed == [st EXCEPT !.textContent = substring(currentSubtitle, end),
                            !.end = end,
                            !.charIndex = end,
                            !.typeSpeed = IF st.isDeleting THEN 50 ELSE 100,
                            !.typed = TRUE]
        turned == IF ~typed.isDeleting /\ typed.charIndex > Len(currentSubtitle)
                  THEN [typed EXCEPT !.typeSpeed = 2000, !.isDeleting = TRUE]
                  ELSE IF typed.isDeleting /\ typed.charIndex = 0
                  THEN [typed EXCEPT !.isDeleting = FALSE,
                                     !.subtitleIndex = (@ + 1) % Len(subtitles),
                                     !.typeSpeed = 500]
                  ELSE typed
    IN  [turned EXCEPT !.timeout = turned.typeSpeed]

\* type(): one character more or one less, the turn at either end, and
\* the next timeout
type(st) ==
    LET currentSubtitle == subtitles[st.subtitleIndex + 1]
        end == IF st.isDeleting THEN st.charIndex - 1 ELSE st.charIndex + 1
        typed == [st EXCEPT !.textContent = substring(currentSubtitle, end),
                            !.end = end,
                            !.charIndex = end,
                            !.typeSpeed = IF st.isDeleting THEN 50 ELSE 100,
                            !.typed = TRUE]
        turned == IF ~typed.isDeleting /\ typed.charIndex = Len(currentSubtitle)
                  THEN [typed EXCEPT !.typeSpeed = 2000, !.isDeleting = TRUE]
                  ELSE IF typed.isDeleting /\ typed.charIndex = 0
                  THEN [typed EXCEPT !.isDeleting = FALSE,
                                     !.subtitleIndex = (@ + 1) % Len(subtitles),
                                     !.typeSpeed = 500]
                  ELSE typed
    IN  [turned EXCEPT !.timeout = turned.typeSpeed]

\* the text of the element in the markup
SubtitleTexts == {"", "AI Researcher at KAIST"}

\* the page before initializeTypeWriter runs
SubtitleInit ==
    /\ InitOn({"part_000"},
              {e \in Envs : e.hasCanvas /\ e.hasCtx /\ ~e.reducedMotion /\ e.webgl})
    /\ \E t \in SubtitleTexts :
         subtitle = [subtitleIndex |-> 0, charIndex |-> 0, isDeleting |-> FALSE,
                     typeSpeed |-> 0, textContent |-> t, end |-> 0,
                     timeout |-> 0, typed |-> FALSE]
    /\ nav = Absent /\ hero = Absent /\ stat = Absent
    /\ counter = Absent /\ debounce = Absent

\* initializeTypeWriter(): the variables and setTimeout(type, 1500)
InitializeTypeWriter ==
    /\ subtitle.timeout = 0
    /\ subtitle' = [subtitle EXCEPT !.typeSpeed = 100, !.timeout = 1500]
    /\ UNCHANGED <<system, nav, hero, stat, counter, debounce>>

\* the pending timeout runs type()
Type ==
    /\ subtitle.timeout > 0
    /\ subtitle' = type(subtitle)
    /\ UNCHANGED <<system, nav, hero, stat, counter, debounce>>

SubtitleNext ==
    \/ InitializeTypeWriter
    \/ Type

SubtitleSpec == SubtitleInit /\ [][SubtitleNext]_vars

\* every timeout that is set runs
SubtitleFairSpec == SubtitleSpec /\ WF_vars(SubtitleNext)

\* ------------------------------------------------ numbers and strings
DigitChars == "0123456789"

IsDigit(c) == \E d \in 1..10 : SubSeq(DigitChars, d, d) = c

DigitValue(c) == (CHOOSE d \in 1..10 : SubSeq(DigitChars, d, d) = c) - 1

\* parseInt(str) of a string of decimal digits
RECURSIVE parseInt(_)
parseInt(str) ==
    IF str = "" THEN 0
    ELSE 10 * parseInt(SubSeq(str, 1, Len(str) - 1))
         + DigitValue(SubSeq(str, Len(str), Len(str)))

\* String(n) of a natural number: its decimal digits, no leading zero
RECURSIVE NumberToString(_)
NumberToString(n) ==
    IF n < 10 THEN SubSeq(DigitChars, n + 1, n + 1)
    ELSE NumberToString(n \div 10) \o SubSeq(DigitChars, (n % 10) + 1, (n % 10) + 1)

\* ------------------------------------------- part_000: the stat counter
\* stat holds one [data-count] element: the attribute, the class
\* 'counted', its text content, the intervals started for it and the
\* intersection events delivered so far.  An interval holds the number of
\* its ticks; its variable current is ticks * target / (duration / 16).
StatSteps == StatDuration \div StatInterval

\* the data-count attributes of the page
DataCounts == {"0", "1", "3", "007", "50", "125", "200"}

\* the callback of statsObserver without the test of the class 'counted'
IntersectionEveryTime(st, isIntersecting) ==
    IF isIntersecting
    THEN [st EXCEPT !.intervals = Append(@, [ticks |-> 0, cleared |-> FALSE]),
                    !.counted = TRUE,
                    !.events = @ + 1]
    ELSE [st EXCEPT !.events = @ + 1]

\* the callback of statsObserver for one entry of the element
Intersection(st, isIntersecting) ==
    IF isIntersecting /\ ~st.counted
    THEN [st EXCEPT !.intervals = Append(@, [ticks |-> 0, cleared |-> FALSE]),
                    !.counted = TRUE,
                    !.events = @ + 1]
    ELSE [st EXCEPT !.events = @ + 1]

\* One tick of the interval id.  current is a double: the sum of the
\* increments may fall just short of ticks * target / StatSteps (short),
\* which shows where that value is an integer.
StatTickOf(st, id, short) ==
    LET target == parseInt(st.dataCount)
        n == st.intervals[id].ticks + 1
        reached == IF target = 0 THEN TRUE
                   ELSE IF short THEN n > StatSteps ELSE n >= StatSteps
        floor == IF short /\ target > 0 /\ (n * target) % StatSteps = 0
                 THEN ((n * target) \div StatSteps) - 1
                 ELSE (n * target) \div StatSteps
    IN  [st EXCEPT !.intervals[id] = [ticks |-> n, cleared |-> reached],
                   !.textContent = NumberToString(IF reached THEN target ELSE floor),
                   !.written = TRUE]

StatInit ==
    /\ InitOn({"part_000"},
              {e \in Envs : e.hasCanvas /\ e.hasCtx /\ ~e.reducedMotion /\ e.webgl})
    /\ \E a \in DataCounts :
         stat = [dataCount |-> a, counted |-> FALSE, textContent |-> "0",
                 intervals |-> <<>>, events |-> 0, written |-> FALSE]
    /\ nav = Absent /\ hero = Absent /\ subtitle = Absent
    /\ counter = Absent /\ debounce = Absent

\* statsObserver delivers an entry of the element
StatIntersection ==
    /\ stat.events < MaxEvents
    /\ \E isIntersecting \in BOOLEAN :
         stat' = Intersection(stat, isIntersecting)
    /\ UNCHANGED <<system, nav, hero, subtitle, counter, debounce>>

\* an interval that is not cleared ticks
StatTick ==
    /\ \E id \in DOMAIN stat.intervals, short \in BOOLEAN :
         /\ ~stat.intervals[id].cleared
         /\ stat' = StatTickOf(stat, id, short)
    /\ UNCHANGED <<system, nav, hero, subtitle, counter, debounce>>

StatNext ==
    \/ StatIntersection
    \/ StatTick

StatSpec == StatInit /\ [][StatNext]_vars

\* an interval that is not cleared keeps ticking
StatFairSpec == StatSpec /\ WF_vars(StatTick)

\* --------------------------------------- part_001: the counter animation
\* counter holds one list item: its text content, the text the observer
\* callback captured, and the intervals it started, one per run of digits,
\* each with the run, the number of its ticks and whether it is cleared.

\* text.match(/\d+/g): the maximal runs of digits from position i on,
\* where run holds the digits read so far
RECURSIVE DigitRuns(_, _, _)
DigitRuns(text, i, run) ==
    IF i > Len(text) THEN (IF run = "" THEN <<>> ELSE <<run>>)
    ELSE IF IsDigit(SubSeq(text, i, i))
    THEN DigitRuns(text, i + 1, run \o SubSeq(text, i, i))
    ELSE (IF run = "" THEN <<>> ELSE <<run>>) \o DigitRuns(text, i + 1, "")

\* text.replace(pattern, replacement) with a string pattern: the first
\* occurrence is replaced
Replace(text, pattern, replacement) ==
    LET at == {i \in 1..(Len(text) - Len(pattern) + 1) :
                 SubSeq(text, i, i + Len(pattern) - 1) = pattern}
    IN  IF at = {} THEN text
        ELSE LET first == CHOOSE i \in at : \A j \in at : i <= j
             IN  SubSeq(text, 1, first - 1) \o replacement
                 \o SubSeq(text, first + Len(pattern), Len(text))

\* the texts of the list items
CounterTexts == {"7 papers", "12 of 2", "0.05 loss", "no awards"}

\* the observer callback for an intersecting entry: one interval per run
CounterIntersect(st) ==
    LET numbers == DigitRuns(st.textContent, 1, "")
    IN  IF numbers = <<>> THEN st
        ELSE [st EXCEPT !.text = st.textContent,
                        !.intervals = [k \in 1..Len(numbers) |->
                                         [num |-> numbers[k], ticks |-> 0,
                                          cleared |-> FALSE]],
                        !.observed = FALSE]

\* One tick of the interval id: currentValue is ticks * finalValue / 50,
\* and the element gets the captured text with the first occurrence of
\* the run replaced by Math.floor(currentValue).
CounterTickOf(st, id) ==
    LET num == st.intervals[id].num
        finalValue == parseInt(num)
        n == st.intervals[id].ticks + 1
        reached == n * finalValue >= CounterSteps * finalValue
        shown == IF reached THEN finalValue ELSE (n * finalValue) \div CounterSteps
    IN  [st EXCEPT !.intervals[id] = [num |-> num, ticks |-> n, cleared |-> reached],
                   !.textContent = Replace(st.text, num, NumberToString(shown))]

CounterInit ==
    /\ InitOn({"part_001"},
              {e \in Envs : e.hasCanvas /\ e.hasCtx /\ ~e.reducedMotion /\ e.webgl})
    /\ \E t \in CounterTexts :
         counter = [textContent |-> t, text |-> "", intervals |-> <<>>,
                    observed |-> TRUE, original |-> t]
    /\ nav = Absent /\ hero = Absent /\ subtitle = Absent
    /\ stat = Absent /\ debounce = Absent

\* the observer delivers an intersecting entry of the item
CounterIntersection ==
    /\ counter.observed
    /\ counter.intervals = <<>>
    /\ counter' = CounterIntersect(counter)
    /\ counter' # counter
    /\ UNCHANGED <<system, nav, hero, subtitle, stat, debounce>>

\* an interval that is not cleared ticks
CounterTick ==
    /\ \E id \in DOMAIN counter.intervals :
         /\ ~counter.intervals[id].cleared
         /\ counter' = CounterTickOf(counter, id)
    /\ UNCHANGED <<system, nav, hero, subtitle, stat, debounce>>

CounterNext ==
    \/ CounterIntersection
    \/ CounterTick

CounterSpec == CounterInit /\ [][CounterNext]_vars

\* ------------------------------------------------------------ properties
Indices(log) == {log[k].i : k \in 1..Len(log)}

\* C1: at most one animation-frame request of the ParticleSystem is pending
\* in every state, and when the visibilitychange listener has handled the
\* return to visible (without an exception ending the frame it may start)
\* exactly one is pending.
OneFrameChain ==
    /\ Cardinality(pending) <= 1
    /\ (out.op = "visibility" /\ listeners /\ isVisible /\ ~out.threw)
          => Cardinality(pending) = 1

\* C1 witness: visibility was lost and regained before the pending callback
\* ran, and the listener left that one request alone
ResumedWithPendingFrame ==
    /\ out.op = "visibility" /\ listeners /\ isVisible /\ ~out.ran
    /\ ticks >= 1
    /\ pending = {animationId}

\* C2 (as claimed): once destroy() has been called no frame is pending and
\* no handler draws on the canvas.
QuietAfterDestroy ==
    destroyed => (pending = {} /\ ~out.cleared /\ ~out.requested)

\* C3: with the reduced-motion preference set at construction, no frame is
\* ever requested, no listener is registered and animate is never called.
NoFrameUnderReducedMotion ==
    env.reducedMotion =>
        (pending = {} /\ nextId = 1 /\ animationId = 0 /\ ~listeners /\ ~out.ran)

\* C3 witness: a reduced-motion page after construction saw a
\* visibilitychange and a resize
ReducedMotionPageLivesOn ==
    /\ env.reducedMotion /\ phase = "ready" /\ env.hasCanvas
    /\ hidden /\ layout # StartSize

\* C4: right after the update step of a frame every particle lies within
\* [-radius, width + radius] x [-radius, height + radius] of that frame's
\* canvas.
WrapInvariant ==
    out.cleared =>
        \A i \in 1..Len(particles) :
            LET q == particles[i]
            IN  /\ 0 - q.radius <= q.x /\ q.x <= canvas.width * Sub + q.radius
                /\ 0 - q.radius <= q.y /\ q.y <= canvas.height * Sub + q.radius

\* C4 witness: after a shrinking resize a frame of part_001 with the mouse
\* listener wrapped a particle to the near edge
WrappedAfterShrink ==
    /\ out.cleared /\ file = "part_001" /\ interactionEnabled
    /\ canvas.width = 0 /\ mouse.x # 0
    /\ \E i \in 1..Len(particles) : particles[i].x = 0 - particles[i].radius

\* the threshold of the file, squared, in length units
ThresholdSquared ==
    IF file = "part_000" THEN (150 * Sub) * (150 * Sub) ELSE (80 * Sub) * (80 * Sub)

\* C5: a connection pass strokes exactly one line for every pair of distinct
\* particles closer than the threshold and none for any other pair (none at
\* the threshold itself, none from a particle to itself, no pair twice), and
\* of two lines the one between the closer particles is the more opaque.
ConnectionsExact ==
    out.op = "connections" =>
        /\ \A k \in 1..Len(out.lines) : out.lines[k].i < out.lines[k].j
        /\ \A i, j \in 1..Len(particles) :
              i < j =>
                Cardinality({k \in 1..Len(out.lines) :
                               out.lines[k].i = i /\ out.lines[k].j = j})
                  = IF DistanceSquared(particles[i], particles[j]) < ThresholdSquared
                    THEN 1 ELSE 0
        /\ \A a, b \in 1..Len(out.lines) :
              out.lines[a].distance < out.lines[b].distance
                => out.lines[a].opacity > out.lines[b].opacity

\* C5 witness: a pass over a pair exactly at the threshold, not connected,
\* and two connected pairs at different distances
PassWithPairAtThreshold ==
    /\ out.op = "connections"
    /\ \E i, j \in 1..Len(particles) :
          i < j /\ DistanceSquared(particles[i], particles[j]) = ThresholdSquared
    /\ \E a, b \in 1..Len(out.lines) : out.lines[a].distance < out.lines[b].distance

\* C6: while isVisible is false no handler draws or updates particles; a
\* frame callback that runs returns early, leaves animationId null and
\* requests nothing.
IdleWhileHidden ==
    (listeners /\ ~isVisible) =>
        /\ ~out.cleared /\ out.updated = <<>> /\ out.drawn = <<>> /\ out.lines = <<>>
        /\ ~out.requested
        /\ out.ran => (out.early /\ animationId = 0 /\ pending = {})

\* C6 witness: a frame callback fired while the page was hidden
FrameFiredWhileHidden ==
    listeners /\ ~isVisible /\ out.op = "frame" /\ out.early

\* the listener has just handled a visibilitychange to visible, on a system
\* that started animating and is not destroyed
VisibleHandled == out.op = "visibility" /\ listeners /\ isVisible /\ ~destroyed

DrawFailureIsLocal ==
    (out.cleared /\ out.failing # {}) =>
        /\ Range(out.updated) = 1..Len(particles)
        /\ Indices(out.drawn) = (1..Len(particles)) \ out.failing
        /\ ~out.threw
        /\ frameCount = out.frameNo + 1
        /\ out.requested /\ animationId # 0 /\ animationId \in pending

\* C8 witness: the first of two particles failed to draw, the second was
\* drawn and the loop went on
SecondDrawnAfterFirstFailed ==
    /\ out.cleared /\ out.failing = {1} /\ Len(particles) >= 2
    /\ 2 \in Indices(out.drawn) /\ out.requested

\* C9 (as claimed): under reduced motion the constructor invokes neither
\* getParticleCount nor init and particles stays empty.
NoInitializerUnderReducedMotion ==
    env.reducedMotion =>
        ("getParticleCount" \notin out.calls /\ "init" \notin out.calls
         /\ particles = <<>>)

\* C9 (amended): under reduced motion the constructor invokes
\* getParticleCount (before it reads the preference) but not init, and
\* particles stays empty in every later state.
OnlyCountUnderReducedMotion ==
    env.reducedMotion =>
        /\ "init" \notin out.calls
        /\ particles = <<>>
        /\ out.op = "construct" => out.calls = {"getParticleCount"}
        /\ phase = "ready" => particleCount = getParticleCount(env)

\* C9 witness: a ParticleSystem constructed under reduced motion
ConstructedUnderReducedMotion ==
    env.reducedMotion /\ out.op = "construct" /\ particleCount > 0

\* C10 (as claimed): under reduced motion initializeParticles of part_000
\* creates no particle and requests no frame.
EditorialQuietUnderReducedMotion ==
    (file = "part_000" /\ env.reducedMotion) =>
        (particles = <<>> /\ pending = {} /\ nextId = 1 /\ ~out.cleared)

\* the statements of the handler of script.js or part_001 that follow the
\* particle block
LaterSteps ==
    IF file = "part_001" THEN Range(SyncEffects) \cup Range(EffectsTail)
    ELSE Range(ScriptTail)

\* C11: when the construction of the ParticleSystem fails at any step (a
\* step of the constructor throws, or its first animate does), no exception
\* of the construction leaves the DOMContentLoaded handler and, on a host
\* where no later statement throws by itself, every later setup step of the
\* handler is executed.
ConstructionFailureContained ==
    (out.op = "construct" /\ out.threw) =>
        /\ page.escaped => page.throwing # {}
        /\ page.throwing = {} => LaterSteps \subseteq page.setup

\* C11 witness: init() threw in the constructor and the handler went on to
\* register the cleanup
FailedInitThenCleanup ==
    /\ out.op = "construct" /\ page.thrown = "init" /\ page.throwing = {}
    /\ {"navigation", "images", "observers", "typewriter", "cleanup"}
          \subseteq page.setup

\* C12 (as claimed): in part_000 and in the deferred batch of part_001 an
\* initializer that throws is caught: no exception leaves the handler or
\* the callback, and every other initializer runs.
InitializersIsolated ==
    /\ (file = "part_000" /\ phase = "ready") =>
          /\ ~page.escaped
          /\ Range(EditorialSteps) \ (page.throwing \cup {"initializeParticles"})
                \subseteq page.setup
    /\ (file = "part_001" /\ out.op = "effects") =>
          /\ ~page.escaped
          /\ Range(DeferredSteps) \ page.throwing \subseteq page.setup

\* C13 (as claimed): in the loop of part_000, right after the update step
\* of a frame every particle lies within [-radius, width + radius] x
\* [-radius, height + radius] of the canvas, also after resizes.
EditorialWithinBounds ==
    (file = "part_000" /\ out.cleared) =>
        \A i \in 1..Len(particles) :
            LET q == particles[i]
            IN  /\ 0 - q.radius <= q.x /\ q.x <= canvas.width * Sub + q.radius
                /\ 0 - q.radius <= q.y /\ q.y <= canvas.height * Sub + q.radius

\* C14: once init() has built the particles their number is the count
\* chosen at initialization in every later state: no frame, resize,
\* visibility change, mouse event or destroy adds or removes a particle.
ParticleSetFixed ==
    [][/\ length' > 0 => (length' = particleCount'
                          /\ Len(particles') = Min(length', MaxParticles))
       /\ phase = "ready" => (length' = length /\ particleCount' = particleCount
                              /\ Len(particles') = Len(particles))]_vars

\* C14 witness: a system built with 40 particles for a wide window, after
\* frames, a resize to a width below both breakpoints and destroy
FortyAfterShrinkAndDestroy ==
    /\ length = DesktopCount /\ destroyed /\ frameCount >= 2
    /\ out.op = "resize" /\ canvas.width < MobileBreakpoint /\ canvas # StartSize

\* C15 (as claimed): in every particle loop the number of particles that
\* the pairwise connection check runs over is at most 40.
AtMostFortyParticles == length <= 40

\* C16: frameCount is the number of frames executed to their end since
\* construction (a call of animate that returns at its guard or ends in an
\* exception does not advance it), and a frame that is executed to its end
\* renders the connections if and only if that number is even; so the
\* executed frames alternate between rendering and skipping them, also
\* across a suspension.
ConnectionsOnEvenFrames ==
    [][LET executed == ticks' = ticks + 1 /\ out'.cleared /\ ~out'.threw
       IN  /\ phase = "load" => frameCount = 0
           /\ frameCount' = IF executed THEN frameCount + 1 ELSE frameCount
           /\ executed => (out'.conn <=> frameCount % 2 = 0)
           /\ (executed /\ ~out'.conn) => out'.lines = <<>>]_vars

\* C16 witness: the third frame is executed by the visibilitychange
\* listener after a suspension and renders the connections
ConnectionsAfterResume ==
    /\ out.op = "visibility" /\ out.cleared /\ ~out.threw /\ ~destroyed
    /\ out.frameNo = 2 /\ out.conn /\ frameCount = 3

\* C17: within one frame every particle that is drawn is drawn at the
\* position its own update (integration and wrap) of that frame gave it,
\* every particle is updated, and the connection pass works on the
\* positions of the particles after all of them were updated.
DrawAfterUpdate ==
    (out.cleared /\ file \in {"script.js", "part_001"}) =>
        /\ out.updated = [i \in 1..Len(particles) |-> i]
        /\ \A k \in 1..Len(out.drawn) :
              /\ out.drawn[k].x = particles[out.drawn[k].i].x
              /\ out.drawn[k].y = particles[out.drawn[k].i].y
        /\ (out.conn /\ ~out.threw) => out.lines = drawConnections(particles)
        /\ out.conn =>
              out.lines = SubSeq(drawConnections(particles), 1, Len(out.lines))

\* C17 witness: the third frame, later than the first, drew every particle
\* (one of them moving) and then the connections
MovedThenDrawn ==
    /\ out.cleared /\ out.frameNo = 2 /\ ticks = 3 /\ clock >= StartTime + 100
    /\ out.conn /\ out.lines # <<>> /\ Len(out.drawn) = Len(particles)
    /\ \E i \in 1..Len(particles) : particles[i].vx # 0

Abs(n) == IF n < 0 THEN 0 - n ELSE n

\* a frame callback has executed a frame on the particles of the state before
FrameStep == phase = "ready" /\ ticks' = ticks + 1 /\ out'.cleared

\* C18 (as claimed): in one frame every particle is displaced by at most
\* |vx| on the x axis and |vy| on the y axis.
DisplacementWithinVelocity ==
    [][FrameStep =>
         \A i \in 1..Len(particles) :
            /\ Abs(particles'[i].x - particles[i].x) <= Abs(particles'[i].vx)
            /\ Abs(particles'[i].y - particles[i].y) <= Abs(particles'[i].vy)]_vars

\* C18 (amended): in every frame the time scale is within [0, 1] and the
\* integration displaces a particle by at most |vx| and |vy| before the
\* edge wrap (which may carry it to the opposite edge); the first frame
\* after construction has scale 0 and leaves every particle where init()
\* put it.
ScaledStepBeforeWrap ==
    [][/\ FrameStep =>
            /\ DeltaTime(FrameTime(clock', lastFrame)) \in 0..DeltaCap
            /\ \A i \in 1..Len(particles) :
                  LET p == particles[i]
                      q == particles'[i]
                  IN  /\ \E x \in (p.x - Abs(q.vx))..(p.x + Abs(q.vx)) :
                            q.x = Wrap(x, q.radius, canvas.width * Sub)
                      /\ \E y \in (p.y - Abs(q.vy))..(p.y + Abs(q.vy)) :
                            q.y = Wrap(y, q.radius, canvas.height * Sub)
       /\ (phase = "load" /\ out'.cleared) =>
            /\ DeltaTime(FrameTime(clock', lastFrame)) = 0
            /\ \A i \in 1..Len(particles') :
                  \E r \in Randoms :
                     /\ particles'[i].x = NewParticle(r, canvas').x
                     /\ particles'[i].y = NewParticle(r, canvas').y]_vars

\* C18 witness: a frame 100 ms after the previous one (scale clamped to 1)
\* with a moving particle
ClampedFrame ==
    /\ out.op = "frame" /\ out.cleared /\ out.frameNo = 1
    /\ clock = StartTime + 100 /\ lastFrame = clock
    /\ \E i \in 1..Len(particles) : particles[i].vx # 0 /\ particles[i].vy # 0

\* C19: a connection drawn by drawConnections between particles at distance
\* d (below the threshold 80) has opacity 0.15 * (1 - d / 80), which lies in
\* (0, 0.15]; particles at (10,10) and (70,10) are connected with opacity
\* 0.0375.  Opacities in millionths, rounded toward zero.
OpacityOfConnection ==
    (out.op = "connections" /\ file \in {"script.js", "part_001"}) =>
        /\ \A k \in 1..Len(out.lines) :
              LET ln == out.lines[k]
                  exact == 150000 * (80 * Sub - ln.distance)
              IN  /\ ln.distance < 80 * Sub
                  /\ ln.opacity * (80 * Sub) <= exact
                  /\ exact < (ln.opacity + 1) * (80 * Sub)
                  /\ 0 < ln.opacity /\ ln.opacity <= 150000
        /\ \A i, j \in 1..Len(particles) :
              (/\ i < j
               /\ {<<particles[i].x, particles[i].y>>, <<particles[j].x, particles[j].y>>}
                     = {<<10 * Sub, 10 * Sub>>, <<70 * Sub, 10 * Sub>>})
              => \E k \in 1..Len(out.lines) :
                    /\ out.lines[k].i = i /\ out.lines[k].j = j
                    /\ out.lines[k].opacity = 37500

\* C19 witness: a pass of script.js over particles at (10,10) and (70,10),
\* and over two particles at the same place (opacity 0.15)
PassOverExamplePair ==
    /\ out.op = "connections" /\ file = "script.js"
    /\ particles[1].x = 10 * Sub /\ particles[1].y = 10 * Sub
    /\ particles[2].x = 70 * Sub /\ particles[2].y = 10 * Sub
    /\ particles[3] = particles[2]
    /\ \E k \in 1..Len(out.lines) : out.lines[k].opacity = 37500
    /\ \E k \in 1..Len(out.lines) : out.lines[k].opacity = 150000

\* C20: when a frame of animate throws outside the drawing of a particle
\* (fillRect, or a stroke of drawConnections), the exception stays inside
\* animate (the constructor goes on to register its listeners), animationId
\* is null afterwards, frameCount is not advanced and no frame request is
\* pending.
FrameFailureContained ==
    (out.ran /\ out.threw) =>
        /\ animationId = 0
        /\ ~out.requested /\ pending = {}
        /\ frameCount = out.frameNo
        /\ out.op = "construct" => (listeners /\ phase = "ready")

\* C20 witness: the third frame, run by a frame callback, threw inside
\* drawConnections after every particle had been drawn
ThirdFrameThrewInConnections ==
    /\ out.op = "frame" /\ out.threw /\ out.cleared /\ out.conn
    /\ out.frameNo = 2 /\ Len(out.drawn) = Len(particles)

\* C21: the number of particles a ParticleSystem creates is 15 when the
\* user agent is mobile, the viewport is narrower than 768 px or WebGL is
\* unavailable, otherwise 25 below 1200 px and 40 from 1200 px on; it is
\* never 30, and no host that differs only by a wider viewport gets fewer.
CreatedCountTable ==
    (phase = "ready" /\ length > 0) =>
        /\ length = IF env.mobileUA \/ env.innerWidth < 768 \/ ~env.webgl THEN 15
                    ELSE IF env.innerWidth <= 1199 THEN 25
                    ELSE 40
        /\ length # 30
        /\ \A e \in CountEnvs :
              (/\ e.mobileUA = env.mobileUA
               /\ e.webgl = env.webgl
               /\ e.innerWidth >= env.innerWidth) => CreatedCount(e) >= length

WideWithoutWebGLCreated ==
    /\ phase = "ready"
    /\ length = 15
    /\ ~env.webgl /\ ~env.mobileUA /\ env.innerWidth >= 1200
    /\ getParticleCount(env) = 30

\* C22: between event handlers animationId is non-null exactly when one
\* frame request of the ParticleSystem is pending, and then it is the
\* handle of that request: after construction, after a frame, after an
\* early return while hidden, after a caught error, after visibilitychange
\* and after destroy.
AnimationIdTracksRequest ==
    /\ (animationId # 0) <=> (Cardinality(pending) = 1)
    /\ (animationId # 0) => (pending = {animationId})

EarlyReturnLeftNoRequest ==
    /\ out.op = "frame" /\ out.early
    /\ hidden
    /\ animationId = 0
    /\ pending = {}

EditorialAriaAgrees ==
    file = "part_000" => ((nav.aria = "true") <=> nav.menu)

\* C24: in the mobile navigation of script.js and part_001 the toggle has
\* the class 'active' iff the menu has it iff aria-expanded is true after
\* every click; a click on a link of the menu or outside leaves the menu
\* closed, and a click on the toggle flips it.
MobileNavAgrees ==
    [][(file # "part_000") =>
         (/\ nav'.toggle = nav'.menu
          /\ nav'.menu = (nav'.aria = "true")
          /\ nav'.last.on \in {"link", "outside"} => ~nav'.menu
          /\ nav'.last.on = "toggle" => (nav'.menu = ~nav.menu))]_vars

\* C25: the typewriter of the hero title makes exactly text.length
\* character steps and then schedules itself no more, and once it has
\* finished the text content of the title is the original title, without
\* the '|' of the cursor.
HeroTitleRestored ==
    (hero.set /\ hero.timer \in {"cursor", "none"}) =>
        /\ hero.steps = Len(hero.text)
        /\ TextContent(hero.children) = hero.text

\* C26: at every call of type() of part_000 subtitleIndex is an index of
\* the list, 0 <= charIndex <= the length of the current subtitle,
\* charIndex >= 1 while deleting and charIndex < length while typing, so
\* that substring gets an end within the string; and after the call the
\* element shows the prefix of length charIndex of the current subtitle.
TypeWithinSubtitle ==
    LET len == Len(subtitles[subtitle.subtitleIndex + 1])
    IN  /\ subtitle.subtitleIndex \in 0..(Len(subtitles) - 1)
        /\ subtitle.charIndex >= 0 /\ subtitle.charIndex <= len
        /\ subtitle.isDeleting => subtitle.charIndex >= 1
        /\ ~subtitle.isDeleting => subtitle.charIndex < len
        /\ subtitle.typed =>
              /\ subtitle.end >= 0
              /\ subtitle.textContent =
                    SubSeq(subtitles[subtitle.subtitleIndex + 1], 1,
                           subtitle.charIndex)

SecondSubtitleHalfDeleted ==
    /\ subtitle.subtitleIndex = 1
    /\ subtitle.isDeleting
    /\ subtitle.textContent = "Machine Lear"

\* the subtitle of index k is shown in full
FullyDisplayed(k) ==
    /\ subtitle.subtitleIndex = k
    /\ subtitle.typed
    /\ subtitle.textContent = subtitles[k + 1]

\* C27: when every timeout runs, each subtitle of part_000 is shown in
\* full again and again, in the order of the list and then from its start;
\* after a subtitle is shown in full the text loses one character per call
\* down to the empty string, and only the call that empties it advances
\* subtitleIndex, by one modulo the length of the list.
SubtitlesCycle ==
    /\ \A k \in 0..3 : []<>FullyDisplayed(k)
    /\ \A k \in 0..3 : FullyDisplayed(k) ~> FullyDisplayed((k + 1) % 4)
    /\ [][LET before == subtitle.textContent
              after == subtitle'.textContent
              advanced == subtitle'.subtitleIndex # subtitle.subtitleIndex
          IN  /\ subtitle.isDeleting =>
                    after = SubSeq(before, 1, Len(before) - 1)
              /\ advanced =>
                    (/\ subtitle.isDeleting
                     /\ after = ""
                     /\ subtitle'.subtitleIndex
                          = (subtitle.subtitleIndex + 1) % 4)
              /\ (subtitle.isDeleting /\ after = "") => advanced]_vars

FourthSubtitleShown ==
    /\ FullyDisplayed(3)
    /\ subtitle.isDeleting

\* C28: for a [data-count] element of part_000 with a non-negative
\* integer and any number of intersection events, at most one interval is
\* ever started (exactly one once the element has intersected), the values
\* shown never decrease and never exceed the target, and the interval is
\* eventually cleared with the target as the value shown.
StatCountsOnce ==
    /\ [](/\ Len(stat.intervals) <= 1
          /\ stat.counted <=> Len(stat.intervals) = 1
          /\ stat.written => parseInt(stat.textContent) <= parseInt(stat.dataCount))
    /\ [][stat.written => parseInt(stat'.textContent) >= parseInt(stat.textContent)]_vars
    /\ stat.counted ~> [](/\ Len(stat.intervals) = 1
                          /\ stat.intervals[1].cleared
                          /\ parseInt(stat.textContent) = parseInt(stat.dataCount))

CountedToTwoHundred ==
    /\ stat.dataCount = "200"
    /\ stat.events = 3
    /\ Len(stat.intervals) = 1
    /\ stat.intervals[1].cleared
    /\ stat.textContent = "200"

\* C29: in the counter animation of part_001, whatever the order in which
\* the intervals of one item tick, once all of them are cleared the text of
\* the item is its original text.
CounterRestoresText ==
    (/\ counter.intervals # <<>>
     /\ \A id \in DOMAIN counter.intervals : counter.intervals[id].cleared)
        => counter.textContent = counter.original

TypeOK == pending \subseteq 1..(MaxFrames + 1)
====
